---- MODULE Spec2Model ----
(***************************************************************************)
(* Model of the video-vectorizer service: the Flask front door             *)
(* (src/main.py) and the pipeline orchestrator (src/video_vectorizer.py).  *)
(*                                                                         *)
(* Python strings whose content the code inspects (the gcsUri prefix) are  *)
(* sequences of one-character strings.  Messages are sequences of message  *)
(* parts, so that f"prefix: {msg}" is the concatenation of its parts.      *)
(* JSON values are records [t, s, n]: a type tag, the characters of a      *)
(* string, the value of a number.  Python exceptions are records           *)
(* [raised, msg, value].                                                   *)
(***************************************************************************)
EXTENDS Integers, Sequences, FiniteSets, TLC

VARIABLES
    index,        \* the external vector index: a set of datapoints
    available,    \* the downstream services that currently answer
    request,      \* the request handled last
    response,     \* the HTTP response to it
    calls,        \* the downstream calls made while handling it, in order
    result,       \* what VideoVectorizer.process_video returned while handling it
    stored,       \* history: per video id, the embedding and metadata of the
                  \* last successful process-video run for it
    previous      \* history: the index as it was when that request arrived

vars == <<index, available, request, response, calls, result, stored, previous>>

-----------------------------------------------------------------------------
(* Bounds and program constants *)

NumVideos == 2

DefaultStatus == 400

DefaultLimit == 5

-----------------------------------------------------------------------------
(* JSON values *)

Str(s) == [t |-> "str", s |-> s, n |-> 0]

Num(n) == [t |-> "num", s |-> <<>>, n |-> n]

Null == [t |-> "null", s |-> <<>>, n |-> 0]

Digits == <<"1", "2", "3", "4">>

GsPrefix == <<"g", "s", ":", "/", "/">>

VideoIdValues == {Str(<<"v", Digits[i]>>) : i \in 1..NumVideos}

GoodUris == {Str(GsPrefix \o <<"b", "/", "v">>)}

BadUris ==
    { Str(<<"h", "t", "t", "p", ":", "/", "/", "a">>),
      Str(<<"g", "s", ":", "/">>),
      Str(<<"G", "S", ":", "/", "/", "b">>),
      Str(<<>>),
      Num(7),
      Null }

GcsUriValues == GoodUris \cup BadUris

QueryValues == {Str(<<"c", "a", "t">>)}

LimitValues == {Num(1), Num(3)}

-----------------------------------------------------------------------------
(* Request bodies.  kind "malformed" is a body json.loads rejects (the      *)
(* empty body included); the other kinds are the parsed Python value.  The  *)
(* body of a request whose content type is not JSON is never parsed: kind   *)
(* "unparsed".                                                              *)
(* keys: for an object its keys, for a list its elements and for a string   *)
(* its substrings, among the names the handlers look for.                   *)

Body(kind, truthy, keys, val) ==
    [kind |-> kind, truthy |-> truthy, keys |-> keys, val |-> val]

NonObjectBodies(names) ==
    { Body("malformed", FALSE, {}, <<>>),
      Body("null", FALSE, {}, <<>>),
      Body("bool", TRUE, {}, <<>>),
      Body("num", FALSE, {}, <<>>),
      Body("num", TRUE, {}, <<>>),
      Body("str", FALSE, {}, <<>>),
      Body("str", TRUE, {}, <<>>),
      Body("str", TRUE, names, <<>>),
      Body("list", FALSE, {}, <<>>),
      Body("list", TRUE, names, <<>>) }

ObjectBody(val) == Body("obj", DOMAIN val # {}, DOMAIN val, val)

ProcessObjects ==
    { ObjectBody(<<>>) }
    \cup { ObjectBody([k \in {"gcsUri"} |-> u]) : u \in GcsUriValues }
    \cup { ObjectBody([k \in {"videoId"} |-> v]) : v \in VideoIdValues }
    \cup { ObjectBody([k \in {"gcsUri", "videoId"} |->
                          IF k = "gcsUri" THEN p[1] ELSE p[2]]) :
             p \in GcsUriValues \X VideoIdValues }

SearchObjects ==
    { ObjectBody(<<>>) }
    \cup { ObjectBody([k \in {"limit"} |-> l]) : l \in LimitValues }
    \cup { ObjectBody([k \in {"query"} |-> q]) : q \in QueryValues }
    \cup { ObjectBody([k \in {"query", "limit"} |->
                          IF k = "query" THEN p[1] ELSE p[2]]) :
             p \in QueryValues \X LimitValues }

ProcessBodies == NonObjectBodies({"gcsUri", "videoId"}) \cup ProcessObjects

SearchBodies == NonObjectBodies({"query"}) \cup SearchObjects

NoBody == Body("none", FALSE, {}, <<>>)

Unparsed == Body("unparsed", FALSE, {}, <<>>)

\* the requests a client can POST: either content type, any body
PostRequests(bodies) ==
    {<<FALSE, Unparsed>>} \cup {<<TRUE, b>> : b \in bodies}

Request(endpoint, method, is_json, body) ==
    [endpoint |-> endpoint, method |-> method, is_json |-> is_json, body |-> body]

-----------------------------------------------------------------------------
(* Python evaluation *)

Ok(v) == [raised |-> FALSE, msg |-> <<>>, value |-> v]

Raise(msg) == [raised |-> TRUE, msg |-> msg, value |-> Null]

\* str.startswith
StartsWith(s, prefix) ==
    /\ Len(s) >= Len(prefix)
    /\ SubSeq(s, 1, Len(prefix)) = prefix

\* bool(data)
Truthy(data) == data.kind # "null" /\ data.truthy

\* name in data
Contains(name, data) ==
    IF data.kind \in {"bool", "num"}
    THEN Raise(<<"argument of type is not iterable">>)
    ELSE Ok(name \in data.keys)

\* data[name]
GetItem(data, name) ==
    IF data.kind = "obj"
    THEN IF name \in data.keys THEN Ok(data.val[name]) ELSE Raise(<<"KeyError">>)
    ELSE Raise(<<"indices must be integers">>)

\* data.get(name, default), for a dict
DictGet(data, name, default) ==
    IF name \in data.keys THEN data.val[name] ELSE default

\* request.get_json(): a body that does not parse raises BadRequest
get_json(req) ==
    IF req.body.kind = "malformed"
    THEN Raise(<<"400 Bad Request">>)
    ELSE Ok(req.body)

\* not data or n1 not in data or n2 not in data ..., left to right
RECURSIVE MissingAny(_, _)
MissingAny(data, names) ==
    IF names = <<>> THEN Ok(FALSE)
    ELSE LET c == Contains(Head(names), data) IN
         IF c.raised THEN c
         ELSE IF ~c.value THEN Ok(TRUE)
         ELSE MissingAny(data, Tail(names))

MissingRequired(data, names) ==
    IF ~Truthy(data) THEN Ok(TRUE) ELSE MissingAny(data, names)

-----------------------------------------------------------------------------
(* The downstream services.  A service that is not available raises.        *)

Services == {"analysis", "embedding", "index"}

FailureMessage(service) == <<service, " unavailable">>

\* What the video analysis operation can return: one annotation result with
\* its labels, shots and speech transcriptions, or no annotation result.
Label(description, frames) == [description |-> description, frames |-> frames]

Shot(start, end) == [start_time_offset |-> start, end_time_offset |-> end]

Annotation(labels, shots, speech) ==
    [shot_label_annotations |-> labels,
     shot_annotations |-> shots,
     speech_transcriptions |-> speech]

AnalysisResults ==
    { [annotation_results |->
         << Annotation(<<Label("cat", <<80, 70>>), Label("dog", <<60>>)>>,
                       <<Shot(0, 2), Shot(2, 9)>>,
                       << <<"a", "b">>, <<"c">> >>) >>],
      [annotation_results |->
         << Annotation(<<Label("cat", <<>>)>>, <<>>, <<>>) >>],
      [annotation_results |-> <<>>] }

Embeddings == {<<1, 0>>, <<0, 1>>}

-----------------------------------------------------------------------------
(* VideoVectorizer *)

\* video_data["transcript"] += alternative.transcript + " ", over the
\* alternatives of one transcription
RECURSIVE AlternativesText(_)
AlternativesText(alternatives) ==
    IF alternatives = <<>> THEN <<>>
    ELSE <<Head(alternatives), " ">> \o AlternativesText(Tail(alternatives))

RECURSIVE TranscriptText(_)
TranscriptText(transcriptions) ==
    IF transcriptions = <<>> THEN <<>>
    ELSE AlternativesText(Head(transcriptions)) \o TranscriptText(Tail(transcriptions))

_parse_video_analysis(analysis) ==
    IF analysis.annotation_results = <<>>
    THEN Raise(<<"list index out of range">>)
    ELSE LET first == analysis.annotation_results[1]
             labels == first.shot_label_annotations
             shots == first.shot_annotations
         IN  IF \E i \in 1..Len(labels) : labels[i].frames = <<>>
             THEN Raise(<<"list index out of range">>)
             ELSE Ok([labels |->
                        [i \in 1..Len(labels) |->
                           [description |-> labels[i].description,
                            confidence |-> labels[i].frames[1]]],
                      scenes |->
                        [i \in 1..Len(shots) |->
                           [start_time |-> shots[i].start_time_offset,
                            end_time |-> shots[i].end_time_offset]],
                      transcript |-> TranscriptText(first.speech_transcriptions)])

analyze_video(gcs_uri, avail, analysis) ==
    IF "analysis" \notin avail
    THEN Raise(FailureMessage("analysis"))
    ELSE _parse_video_analysis(analysis)

generate_embeddings(text, avail, embedding) ==
    IF "embedding" \notin avail
    THEN Raise(FailureMessage("embedding"))
    ELSE Ok(embedding)

Datapoint(id, embedding, parameters) ==
    [id |-> id, embedding |-> embedding, parameters |-> parameters]

\* A faulty variant of upsert_embeddings: the datapoint is added and the one of the same
\* id is kept.
upsert_embeddingsAppend(idx, embedding, id, parameters) ==
    idx \cup {Datapoint(id, embedding, parameters)}

\* index.upsert_embeddings: the datapoint replaces the one of the same id
upsert_embeddings(idx, embedding, id, parameters) ==
    {d \in idx : d.id # id} \cup {Datapoint(id, embedding, parameters)}

store_vectors(idx, avail, vector_data, metadata) ==
    IF "index" \notin avail
    THEN Raise(FailureMessage("index"))
    ELSE Ok(upsert_embeddings(idx, vector_data, metadata.video_id, metadata))

\* ' '.join(parts)
RECURSIVE Join(_)
Join(parts) ==
    IF parts = <<>> THEN <<>>
    ELSE IF Len(parts) = 1 THEN <<parts[1]>>
    ELSE <<parts[1], " ">> \o Join(Tail(parts))

SearchText(video_data) ==
    Join([i \in 1..Len(video_data.labels) |-> video_data.labels[i].description])
        \o <<" ">> \o video_data.transcript

\* A faulty variant of Metadata: the identifier and the URI change places.
MetadataSwapped(video_id, gcs_uri, video_data) ==
    [video_id |-> gcs_uri,
     gcs_uri |-> video_id,
     labels |-> video_data.labels,
     scenes |-> video_data.scenes,
     transcript |-> video_data.transcript]

Metadata(video_id, gcs_uri, video_data) ==
    [video_id |-> video_id,
     gcs_uri |-> gcs_uri,
     labels |-> video_data.labels,
     scenes |-> video_data.scenes,
     transcript |-> video_data.transcript]

\* The record of one downstream call: its arguments and how it ended
\* (out is what the call returned or raised).
AnalyzeCall(gcs_uri, out) ==
    [op |-> "analyze", ok |-> ~out.raised, error |-> out.msg, input_uri |-> gcs_uri]

EmbedCall(text, out) ==
    [op |-> "embed", ok |-> ~out.raised, error |-> out.msg, text |-> text]

UpsertCall(id, embedding, parameters, out) ==
    [op |-> "upsert", ok |-> ~out.raised, error |-> out.msg, id |-> id,
     embedding |-> embedding, parameters |-> parameters]

NeighborsCall(embedding, num_neighbors, out) ==
    [op |-> "find_neighbors", ok |-> ~out.raised, error |-> out.msg,
     embedding |-> embedding, num_neighbors |-> num_neighbors]

\* A faulty variant of ErrorRecord: a fixed message in place of str(e).
ErrorRecordGeneric(video_id, msg) ==
    [status |-> "error", video_id |-> video_id, error |-> <<"processing failed">>]

ErrorRecord(video_id, msg) ==
    [status |-> "error", video_id |-> video_id, error |-> msg]

SuccessRecord(video_id, metadata) ==
    [status |-> "success", video_id |-> video_id, metadata |-> metadata]

Run(res, trace, idx) == [result |-> res, calls |-> trace, index |-> idx]

\* A faulty variant of VectorizerProcessVideo: each step has its own handler and the
\* pipeline goes on after a failed step.
VectorizerProcessVideoEager(gcs_uri, video_id, idx, avail, analysis, embedding) ==
    LET analysed == analyze_video(gcs_uri, avail, analysis)
        video_data == IF analysed.raised
                      THEN [labels |-> <<>>, scenes |-> <<>>, transcript |-> <<>>]
                      ELSE analysed.value
        search_text == SearchText(video_data)
        embedded == generate_embeddings(search_text, avail, embedding)
        vector == IF embedded.raised THEN <<0, 0>> ELSE embedded.value
        metadata == Metadata(video_id, gcs_uri, video_data)
        saved == store_vectors(idx, avail, vector, metadata)
        trace == <<AnalyzeCall(gcs_uri, analysed), EmbedCall(search_text, embedded),
                   UpsertCall(metadata.video_id, vector, metadata, saved)>>
    IN  IF saved.raised
        THEN Run(ErrorRecord(video_id, saved.msg), trace, idx)
        ELSE Run(SuccessRecord(video_id, metadata), trace, saved.value)

\* VideoVectorizer.process_video: the three steps under one try/except
VectorizerProcessVideo(gcs_uri, video_id, idx, avail, analysis, embedding) ==
    LET video_data == analyze_video(gcs_uri, avail, analysis)
        c1 == <<AnalyzeCall(gcs_uri, video_data)>>
    IN  IF video_data.raised
        THEN Run(ErrorRecord(video_id, video_data.msg), c1, idx)
        ELSE
    LET search_text == SearchText(video_data.value)
        embeddings == generate_embeddings(search_text, avail, embedding)
        c2 == Append(c1, EmbedCall(search_text, embeddings))
    IN  IF embeddings.raised
        THEN Run(ErrorRecord(video_id, embeddings.msg), c2, idx)
        ELSE
    LET metadata == Metadata(video_id, gcs_uri, video_data.value)
        saved == store_vectors(idx, avail, embeddings.value, metadata)
        c3 == Append(c2, UpsertCall(metadata.video_id, embeddings.value, metadata,
                                    saved))
    IN  IF saved.raised
        THEN Run(ErrorRecord(video_id, saved.msg), c3, idx)
        ELSE Run(SuccessRecord(video_id, metadata), c3, saved.value)

\* index.find_neighbors: ranking is the service's ordering of the whole index
\* by distance to the query; it answers with the first num_neighbors of it
find_neighbors(ranking, num_neighbors) ==
    SubSeq(ranking, 1, IF num_neighbors < Len(ranking) THEN num_neighbors
                       ELSE Len(ranking))

\* VideoVectorizer.search_videos
VectorizerSearchVideos(query_embedding, limit, avail, ranking) ==
    IF "index" \notin avail
    THEN Raise(FailureMessage("index"))
    ELSE LET results == find_neighbors(ranking, limit.n)
         IN  Ok([i \in 1..Len(results) |->
                   [video_id |-> results[i].id,
                    score |-> i,
                    metadata |-> results[i].parameters]])

-----------------------------------------------------------------------------
(* The HTTP front door *)

NoResult == [status |-> "none"]

Response(status_code, body) == [status |-> status_code, body |-> body]

create_error_response(message, status_code) ==
    Response(status_code, [error |-> message])

Handled(resp, trace, res, idx) ==
    [response |-> resp, calls |-> trace, result |-> res, index |-> idx]

\* except Exception as e
Unexpected(msg, trace, idx) ==
    Handled(create_error_response(<<"Unexpected error: ">> \o msg, 500),
            trace, NoResult, idx)

\* A faulty variant of health_check: the health endpoint reports a failure.
health_checkFailing == Response(500, [status |-> "unhealthy"])

health_check == Response(200, [status |-> "healthy"])

not_found == create_error_response(<<"Resource not found">>, 404)

method_not_allowed == create_error_response(<<"Method not allowed">>, 405)

\* A faulty variant of UriStartsWith: the scheme check accepts every value.
UriStartsWithAny(gcs_uri, prefix) == Ok(TRUE)

\* gcs_uri.startswith("gs://"): only a str has the method
UriStartsWith(gcs_uri, prefix) ==
    IF gcs_uri.t = "str"
    THEN Ok(StartsWith(gcs_uri.s, prefix))
    ELSE Raise(<<"object has no attribute 'startswith'">>)

process_video(req, idx, avail, analysis, embedding) ==
    IF ~req.is_json
    THEN Handled(create_error_response(<<"Content-Type must be application/json">>,
                                       DefaultStatus), <<>>, NoResult, idx)
    ELSE
    LET got == get_json(req)
    IN  IF got.raised THEN Unexpected(got.msg, <<>>, idx) ELSE
    LET data == got.value
        missing == MissingRequired(data, <<"gcsUri", "videoId">>)
    IN  IF missing.raised THEN Unexpected(missing.msg, <<>>, idx) ELSE
        IF missing.value
        THEN Handled(create_error_response(
                        <<"Missing required parameters. 'gcsUri' and 'videoId' are required.">>,
                        DefaultStatus), <<>>, NoResult, idx)
        ELSE
    LET gcs_uri == GetItem(data, "gcsUri")
        video_id == GetItem(data, "videoId")
    IN  IF gcs_uri.raised THEN Unexpected(gcs_uri.msg, <<>>, idx) ELSE
        IF video_id.raised THEN Unexpected(video_id.msg, <<>>, idx) ELSE
    LET scheme == UriStartsWith(gcs_uri.value, GsPrefix)
    IN  IF scheme.raised THEN Unexpected(scheme.msg, <<>>, idx) ELSE
        IF ~scheme.value
        THEN Handled(create_error_response(
                        <<"Invalid gcsUri format. Must start with 'gs://'">>,
                        DefaultStatus), <<>>, NoResult, idx)
        ELSE
    LET run == VectorizerProcessVideo(gcs_uri.value, video_id.value, idx, avail,
                                      analysis, embedding)
    IN  IF run.result.status = "error"
        THEN Handled(create_error_response(
                        <<"Error processing video: ">> \o run.result.error, 500),
                     run.calls, run.result, run.index)
        ELSE Handled(Response(200, run.result), run.calls, run.result, run.index)

search_videos(req, idx, avail, embedding, ranking) ==
    IF ~req.is_json
    THEN Handled(create_error_response(<<"Content-Type must be application/json">>,
                                       DefaultStatus), <<>>, NoResult, idx)
    ELSE
    LET got == get_json(req)
    IN  IF got.raised THEN Unexpected(got.msg, <<>>, idx) ELSE
    LET data == got.value
        missing == MissingRequired(data, <<"query">>)
    IN  IF missing.raised THEN Unexpected(missing.msg, <<>>, idx) ELSE
        IF missing.value
        THEN Handled(create_error_response(<<"Missing required parameter: 'query'">>,
                                           DefaultStatus), <<>>, NoResult, idx)
        ELSE
    LET query == GetItem(data, "query")
    IN  IF query.raised THEN Unexpected(query.msg, <<>>, idx) ELSE
    LET limit == DictGet(data, "limit", Num(DefaultLimit))
        query_embedding == generate_embeddings(query.value, avail, embedding)
        c1 == <<EmbedCall(query.value, query_embedding)>>
    IN  IF query_embedding.raised THEN Unexpected(query_embedding.msg, c1, idx) ELSE
    LET results == VectorizerSearchVideos(query_embedding.value, limit, avail, ranking)
        c2 == Append(c1, NeighborsCall(query_embedding.value, limit, results))
    IN  IF results.raised THEN Unexpected(results.msg, c2, idx)
        ELSE Handled(Response(200, [status |-> "success",
                                    query |-> query.value,
                                    results |-> results.value]),
                     c2, NoResult, idx)

-----------------------------------------------------------------------------
(* The service as a state machine: one action per request handled.  The     *)
(* service is single-threaded and synchronous, so a request is handled in   *)
(* one step.                                                                 *)

NoEntry == [embedding |-> <<>>, metadata |-> NoResult]

NoRequest == Request("none", "none", FALSE, NoBody)

Init ==
    /\ index = {}
    /\ available = Services
    /\ request = NoRequest
    /\ response = Response(0, NoResult)
    /\ calls = <<>>
    /\ result = NoResult
    /\ stored = [v \in VideoIdValues |-> NoEntry]
    /\ previous = {}

\* the orderings of the whole index the service can rank by
RankingsOf(idx) ==
    { r \in [1..Cardinality(idx) -> idx] :
        \A i, j \in 1..Cardinality(idx) : i # j => r[i] # r[j] }

Record(req, out) ==
    /\ request' = req
    /\ response' = out.response
    /\ calls' = out.calls
    /\ result' = out.result
    /\ index' = out.index
    /\ previous' = index

HealthCheck ==
    /\ Record(Request("/health", "GET", FALSE, NoBody),
              Handled(health_check, <<>>, NoResult, index))
    /\ UNCHANGED <<available, stored>>

ProcessVideo(is_json, body, analysis, embedding) ==
    LET req == Request("/process-video", "POST", is_json, body)
        out == process_video(req, index, available, analysis, embedding)
    IN  /\ Record(req, out)
        /\ stored' = IF out.result.status = "success"
                     THEN [stored EXCEPT ![body.val["videoId"]] =
                              [embedding |-> embedding,
                               metadata |-> out.result.metadata]]
                     ELSE stored
        /\ UNCHANGED available

SearchVideos(is_json, body, embedding, ranking) ==
    LET req == Request("/search", "POST", is_json, body)
    IN  /\ Record(req, search_videos(req, index, available, embedding, ranking))
        /\ UNCHANGED <<available, stored>>

NotFound ==
    /\ Record(Request("/unknown", "GET", FALSE, NoBody),
              Handled(not_found, <<>>, NoResult, index))
    /\ UNCHANGED <<available, stored>>

MethodNotAllowed ==
    /\ Record(Request("/health", "POST", FALSE, NoBody),
              Handled(method_not_allowed, <<>>, NoResult, index))
    /\ UNCHANGED <<available, stored>>

\* a downstream service goes down or comes back
ServiceChange(service) ==
    /\ available' = IF service \in available
                    THEN available \ {service}
                    ELSE available \cup {service}
    /\ UNCHANGED <<index, request, response, calls, result, stored, previous>>

\* The answers of the downstream services are drawn only for a request that
\* reaches them: a request handled without any downstream call has one outcome.
DefaultAnalysis == CHOOSE a \in AnalysisResults : TRUE

DefaultEmbedding == CHOOSE e \in Embeddings : TRUE

DefaultRanking == CHOOSE r \in RankingsOf(index) : TRUE

ProcessReaches(post) ==
    process_video(Request("/process-video", "POST", post[1], post[2]), index,
                  available, DefaultAnalysis, DefaultEmbedding).calls # <<>>

SearchReaches(post) ==
    search_videos(Request("/search", "POST", post[1], post[2]), index,
                  available, DefaultEmbedding, DefaultRanking).calls # <<>>

Next ==
    \/ HealthCheck
    \/ \E post \in PostRequests(ProcessBodies) :
         \E analysis \in IF ProcessReaches(post) THEN AnalysisResults
                         ELSE {DefaultAnalysis},
            embedding \in IF ProcessReaches(post) THEN Embeddings
                          ELSE {DefaultEmbedding} :
            ProcessVideo(post[1], post[2], analysis, embedding)
    \/ \E post \in PostRequests(SearchBodies) :
         \E embedding \in IF SearchReaches(post) THEN Embeddings
                          ELSE {DefaultEmbedding},
            ranking \in IF SearchReaches(post) THEN RankingsOf(index)
                        ELSE {DefaultRanking} :
            SearchVideos(post[1], post[2], embedding, ranking)
    \/ NotFound
    \/ MethodNotAllowed
    \/ \E service \in Services : ServiceChange(service)

Spec == Init /\ [][Next]_vars

-----------------------------------------------------------------------------
(* What the claims speak of, read off the request handled last *)

IsPost(endpoint) == request.endpoint = endpoint /\ request.method = "POST"

HasField(name) == request.body.kind = "obj" /\ name \in request.body.keys

Field(name) == request.body.val[name]

\* the body holds name in no sense: not as a key, an element or a substring
Lacks(name) == name \notin request.body.keys

HasScheme(value) == value.t = "str" /\ StartsWith(value.s, GsPrefix)

\* a process-video request that passes every validation of the front door
Validated(req) ==
    /\ req.endpoint = "/process-video"
    /\ req.is_json
    /\ req.body.kind = "obj"
    /\ {"gcsUri", "videoId"} \subseteq req.body.keys
    /\ HasScheme(req.body.val["gcsUri"])

\* the request handled last fails validation: content type, body, required
\* field or URI scheme
FailsValidation ==
    \/ ~request.is_json
    \/ request.body.kind # "obj"
    \/ IsPost("/process-video") /\ ~(HasField("gcsUri") /\ HasField("videoId"))
    \/ IsPost("/process-video") /\ ~HasScheme(Field("gcsUri"))
    \/ IsPost("/search") /\ ~HasField("query")

PipelineOrder == <<"analyze", "embed", "upsert">>

-----------------------------------------------------------------------------
(* Claims *)

\* C1: every POST /process-video with a JSON content type whose body is empty
\* or lacks 'gcsUri' or lacks 'videoId' is answered 400 with the error body
\* that names the required parameters.
C1_MissingFieldIs400 ==
    (/\ IsPost("/process-video")
     /\ request.is_json
     /\ (Lacks("gcsUri") \/ Lacks("videoId")))
    => response = Response(400,
          [error |-> <<"Missing required parameters. 'gcsUri' and 'videoId' are required.">>])

\* C2: every POST /process-video that carries 'gcsUri' and 'videoId' and whose
\* gcsUri does not start with gs://, whatever its value or type, is answered 400.
C2_BadSchemeIs400 ==
    (/\ IsPost("/process-video")
     /\ request.is_json
     /\ HasField("gcsUri") /\ HasField("videoId")
     /\ ~HasScheme(Field("gcsUri")))
    => response.status = 400

\* C3: when the video analysis fails during a validated process-video request,
\* the orchestrator returns the record {status: error, video_id, error: the
\* failure message} and the endpoint answers 500 with {error: message}.
C3_AnalysisFailure ==
    (/\ IsPost("/process-video")
     /\ calls # <<>>
     /\ calls[1].op = "analyze"
     /\ ~calls[1].ok)
    => /\ result = [status |-> "error",
                    video_id |-> Field("videoId"),
                    error |-> calls[1].error]
       /\ response = Response(500,
             [error |-> <<"Error processing video: ">> \o calls[1].error])

C3_Witness ==
    /\ IsPost("/process-video")
    /\ Validated(request)
    /\ Len(calls) = 1
    /\ ~calls[1].ok
    /\ response.status = 500

\* C4 (the part about the limit): a POST /search with 'query' that is answered
\* 200 made the lookup, and every lookup gets num_neighbors = 5 when 'limit'
\* is absent and the given limit otherwise.
C4_LimitPassed ==
    (IsPost("/search") /\ HasField("query"))
    => /\ \A i \in 1..Len(calls) :
             calls[i].op = "find_neighbors"
             => calls[i].num_neighbors =
                   IF HasField("limit") THEN Field("limit") ELSE Num(5)
       /\ response.status = 200
          => (Len(calls) = 2 /\ calls[2].op = "find_neighbors" /\ calls[2].ok)

\* C4: a POST /search without 'query' is answered 400 with no downstream call;
\* with 'query' the nearest-neighbor lookup gets num_neighbors = 5 when 'limit'
\* is absent and the given limit otherwise.
C4_SearchContract ==
    /\ (IsPost("/search") /\ Lacks("query"))
       => (response.status = 400 /\ calls = <<>>)
    /\ C4_LimitPassed

\* C5: whatever the downstream services' state and the requests before,
\* GET /health is answered 200 {status: healthy} with no downstream call.
C5_HealthAlways ==
    (request.endpoint = "/health" /\ request.method = "GET")
    => /\ response = Response(200, [status |-> "healthy"])
       /\ calls = <<>>
       /\ index = previous

C5_Witness ==
    /\ request.endpoint = "/health"
    /\ request.method = "GET"
    /\ available = {}
    /\ index # {}
    /\ response.status = 200

\* C6: in one process-video run the downstream calls are analyze, embed, upsert
\* in this order, each at most once, a step only after the success of the
\* steps before it, and the run succeeds only if the upsert completed.
C6_CallOrder ==
    IsPost("/process-video")
    => /\ Len(calls) <= 3
       /\ \A i \in 1..Len(calls) :
             /\ calls[i].op = PipelineOrder[i]
             /\ i > 1 => calls[i - 1].ok
       /\ (result.status = "success" \/ response.status = 200)
          => (Len(calls) = 3 /\ calls[3].ok)

C6_Witness ==
    /\ IsPost("/process-video")
    /\ Len(calls) = 2
    /\ calls[1].ok
    /\ ~calls[2].ok
    /\ result.status = "error"

\* C7: every response to a POST on /process-video or /search is 200, 400 or
\* 500; it is 400 exactly when the request fails validation, and a validation
\* failure is never answered 500.
C7_StatusTaxonomy ==
    (IsPost("/process-video") \/ IsPost("/search"))
    => /\ response.status \in {200, 400, 500}
       /\ response.status = 400 <=> FailsValidation
       /\ FailsValidation => response.status # 500

\* C8: the index holds at most one entry per video id, and it is the embedding
\* and metadata of the last successful process-video run for that id: a
\* re-processed id is analysed, embedded and upserted again and overwritten.
C8_OneEntryPerVideo ==
    /\ \A d, e \in index : d.id = e.id => d = e
    /\ index = { [id |-> v,
                  embedding |-> stored[v].embedding,
                  parameters |-> stored[v].metadata] :
                 v \in {w \in VideoIdValues : stored[w] # NoEntry} }

C8_Witness ==
    /\ IsPost("/process-video")
    /\ response.status = 200
    /\ Len(calls) = 3
    /\ \E d \in previous, e \in index : d.id = e.id /\ d # e

\* C9: after a successful run the id of the upsert, the video_id of the stored
\* metadata and of the returned record are the request's videoId, the
\* metadata's gcs_uri is the request's gcsUri, and the metadata returned is
\* the metadata upserted.
C9_IdentifiersAgree ==
    (IsPost("/process-video") /\ result.status = "success")
    => /\ Len(calls) = 3
       /\ calls[3].op = "upsert"
       /\ calls[3].id = Field("videoId")
       /\ calls[3].parameters.video_id = Field("videoId")
       /\ calls[3].parameters.gcs_uri = Field("gcsUri")
       /\ result.video_id = Field("videoId")
       /\ result.metadata = calls[3].parameters
       /\ response.body = result
       /\ [id |-> Field("videoId"),
           embedding |-> calls[3].embedding,
           parameters |-> result.metadata] \in index

C9_Witness ==
    /\ IsPost("/process-video")
    /\ result.status = "success"
    /\ response.status = 200
    /\ Cardinality(index) = NumVideos

\* C10: the index changes only in a process-video request that passed
\* validation and whose analysis and embedding both succeeded; a request
\* answered 400, a run failing in analysis or embedding, /search and /health
\* leave it unchanged.
C10_IndexFrame ==
    [][index' # index
       => /\ Validated(request')
          /\ response'.status # 400
          /\ Len(calls') >= 2
          /\ calls'[1].op = "analyze" /\ calls'[1].ok
          /\ calls'[2].op = "embed" /\ calls'[2].ok]_vars

C10_Witness ==
    /\ index # previous
    /\ Validated(request)
    /\ Cardinality(index) > Cardinality(previous)

====
